---------------------------- MODULE Spec2Model ----------------------------
(***************************************************************************)
(* Model of transcribe_reels.py (src/rel.py): the batch driver main(), its *)
(* dependency check, the URL list reader, the downloader adapter, the      *)
(* output writer and the SRT timestamp formatter.                          *)
(*                                                                         *)
(* Python str values are modelled as sequences of one-character strings,   *)
(* so that formatting, joining, stripping and suffix replacement are       *)
(* computed character by character as the code computes them.              *)
(* Times (Python floats, seconds) are modelled as exact integers counting  *)
(* ticks of 1/TicksPerSec second.                                          *)
(***************************************************************************)
EXTENDS Integers, Sequences, FiniteSets, TLC

VARIABLES
    env,        \* the machine the run starts on: tools, libraries, BACKEND, URL file, out dir
    pc,         \* position of main(): "off" when the driver is not running
    exitCode,   \* process exit status, -1 while running
    urls,       \* the list read_urls returned
    i,          \* 1-based index of the loop's current url
    tmpdirs,    \* temporary workspaces on disk: item index -> set of file names
    mp4,        \* local mp4 of main(): file name of the downloaded video
    meta,       \* local meta of main(): [uploader, id]
    transcript, \* local transcript of main()
    files,      \* the output directory: file name -> [content, writer]
    log,        \* the [done] / [error] lines printed, in order
    dl,         \* the "[download] <url>" lines printed, in order
    trace,      \* per item, the pipeline stages it went through
    ta, tb,     \* formatter harness: two times (ticks)
    fa, fb,     \* formatter harness: their formatted strings
    wtr,        \* writer harness: the Transcript handed to write_outputs
    wout        \* writer harness: what write_outputs wrote

driverVars == <<env, pc, exitCode, urls, i, tmpdirs, mp4, meta, transcript,
                files, log, dl, trace>>
fmtVars    == <<ta, tb, fa, fb>>
wrVars     == <<wtr, wout>>
vars       == <<driverVars, fmtVars, wrVars>>

-----------------------------------------------------------------------------
(* Bounds of the model *)

\* ticks per millisecond: the resolution of modelled times
SubMs == 4
\* largest hour value of the sampled times
MaxHour == 100
\* most lines of the URL file
MaxLines == 2
\* most segments of a Transcript in the writer harness
MaxSegs == 2

TicksPerSec == SubMs * 1000

-----------------------------------------------------------------------------
(* Python str helpers *)

Digit == <<"0", "1", "2", "3", "4", "5", "6", "7", "8", "9">>

\* str(n) for n >= 0
RECURSIVE Str(_)
Str(n) == IF n < 10 THEN <<Digit[n + 1]>>
          ELSE Str(n \div 10) \o <<Digit[(n % 10) + 1]>>

RECURSIVE Zeros(_)
Zeros(k) == IF k <= 0 THEN <<>> ELSE <<"0">> \o Zeros(k - 1)

\* f"{n:0w}": decimal, zero-padded to at least w characters
ZeroPad(n, w) == Zeros(w - Len(Str(n))) \o Str(n)

\* sep.join(parts)
RECURSIVE Join(_, _)
Join(parts, sep) == IF parts = <<>> THEN <<>>
                    ELSE IF Len(parts) = 1 THEN parts[1]
                    ELSE parts[1] \o sep \o Join(Tail(parts), sep)

\* index of the last c in s, 0 when there is none (str.rfind, 1-based)
RFind(s, c) == IF \E k \in 1..Len(s) : s[k] = c
               THEN CHOOSE k \in 1..Len(s) : s[k] = c /\ \A j \in (k + 1)..Len(s) : s[j] # c
               ELSE 0

Whitespace == {" ", "\n", "\t"}

\* str.strip()
RECURSIVE LStrip(_)
LStrip(s) == IF s # <<>> /\ Head(s) \in Whitespace THEN LStrip(Tail(s)) ELSE s
RECURSIVE RStrip(_)
RStrip(s) == IF s # <<>> /\ s[Len(s)] \in Whitespace
             THEN RStrip(SubSeq(s, 1, Len(s) - 1)) ELSE s
Strip(s) == RStrip(LStrip(s))

-----------------------------------------------------------------------------
(* format_srt_time *)

\* h = int(t // 3600)
fmt_h(t) == t \div (3600 * TicksPerSec)
\* m = int((t % 3600) // 60)
fmt_m(t) == (t % (3600 * TicksPerSec)) \div (60 * TicksPerSec)
\* s = int(t % 60)
fmt_s(t) == (t % (60 * TicksPerSec)) \div TicksPerSec
\* a plausible slip: milliseconds rounded to nearest instead of truncated
fmt_ms_rounded(t) == ((t - (t \div TicksPerSec) * TicksPerSec) * 1000 + TicksPerSec \div 2)
                         \div TicksPerSec
\* ms = int((t - int(t)) * 1000)
fmt_ms(t) == ((t - (t \div TicksPerSec) * TicksPerSec) * 1000) \div TicksPerSec

\* a plausible slip: the hours field not zero-padded, f"{h}:{m:02}:{s:02},{ms:03}"
format_srt_time_nopad(t) ==
    Str(fmt_h(t)) \o <<":">> \o ZeroPad(fmt_m(t), 2) \o <<":">>
        \o ZeroPad(fmt_s(t), 2) \o <<",">> \o ZeroPad(fmt_ms(t), 3)
\* return f"{h:02}:{m:02}:{s:02},{ms:03}"
format_srt_time(t) ==
    ZeroPad(fmt_h(t), 2) \o <<":">> \o ZeroPad(fmt_m(t), 2) \o <<":">>
        \o ZeroPad(fmt_s(t), 2) \o <<",">> \o ZeroPad(fmt_ms(t), 3)

-----------------------------------------------------------------------------
(* pathlib: PurePath.suffix, .stem, .with_suffix on a file name *)

\* PurePath.suffix: the last dot and what follows, unless the dot is first or last
Suffix(name) == LET d == RFind(name, ".")
                IN IF 1 < d /\ d < Len(name) THEN SubSeq(name, d, Len(name)) ELSE <<>>

\* PurePath.stem
Stem(name) == SubSeq(name, 1, Len(name) - Len(Suffix(name)))

\* PurePath.with_suffix: the old suffix, if any, is replaced
with_suffix(name, suffix) == Stem(name) \o suffix

-----------------------------------------------------------------------------
(* write_outputs *)

DotTxt == <<".", "t", "x", "t">>
DotSrt == <<".", "s", "r", "t">>
NL     == <<"\n">>
Arrow  == <<" ", "-", "-", ">", " ">>

\* the four lines appended for segment number n
SegBlock(n, seg) ==
    << Str(n),
       format_srt_time(seg.start) \o Arrow \o format_srt_time(seg.end),
       seg.text,
       <<>> >>

\* the list `lines` after the loop over enumerate(segs, first)
RECURSIVE SrtLinesFrom(_, _)
SrtLinesFrom(segs, first) ==
    IF segs = <<>> THEN <<>>
    ELSE SegBlock(first, Head(segs)) \o SrtLinesFrom(Tail(segs), first + 1)

\* a plausible slip: enumerate(transcript["segments"]) without the start value 1
SrtLines0(segs) == SrtLinesFrom(segs, 0)
\* for i, seg in enumerate(transcript["segments"], 1): ...
SrtLines(segs) == SrtLinesFrom(segs, 1)

\* what write_outputs(base_path, transcript) writes and returns
write_outputs(base_path, tr) ==
    [ txt_path |-> with_suffix(base_path, DotTxt),
      srt_path |-> with_suffix(base_path, DotSrt),
      txt      |-> tr.text \o NL,
      srt      |-> Join(SrtLines(tr.segments), NL) ]

-----------------------------------------------------------------------------
(* Sampled inputs of the two harnesses *)

Hours == {0, 1, 9, 10} \cup (99..MaxHour)
Mins  == {0, 1, 59}
Secs  == {0, 1, 59}
Fracs == {0, 1, TicksPerSec \div 2, TicksPerSec - 1}

\* h hours, m minutes, s seconds and f ticks, in ticks
TimeOf(h, m, s, f) == ((h * 60 + m) * 60 + s) * TicksPerSec + f

Times == {TimeOf(h, m, s, f) : h \in Hours, m \in Mins, s \in Secs, f \in Fracs}

Texts == { <<>>, <<"h", "i">>, <<"a", " ", "b">> }

SegTimes == {0, TimeOf(0, 0, 1, TicksPerSec \div 2), TimeOf(1, 1, 1, TicksPerSec \div 2)}

Segments == {sg \in [start : SegTimes, end : SegTimes, text : Texts] : sg.start <= sg.end}

SegLists == UNION {[1..n -> Segments] : n \in 0..MaxSegs}

Transcripts == [text : Texts, segments : SegLists]

NoOutput == [txt_path |-> <<>>, srt_path |-> <<>>, txt |-> <<>>, srt |-> <<>>]

HarnessBase == <<"a", "_", "1">>

-----------------------------------------------------------------------------
(* Idle values of each group of variables *)

DriverOff ==
    /\ env = [ffmpeg |-> TRUE, ytdlp |-> TRUE, whisper |-> TRUE, faster |-> TRUE,
              backend |-> "whisper", urlFile |-> [exists |-> TRUE, lines |-> <<>>], outDirOK |-> TRUE]
    /\ pc = "off"
    /\ exitCode = -1
    /\ urls = <<>>
    /\ i = 1
    /\ tmpdirs = <<>>
    /\ mp4 = <<>>
    /\ meta = [uploader |-> <<>>, id |-> <<>>]
    /\ transcript = [text |-> <<>>, segments |-> <<>>]
    /\ files = <<>>
    /\ log = <<>>
    /\ dl = <<>>
    /\ trace = <<>>

FmtOff == ta = 0 /\ tb = 0 /\ fa = <<>> /\ fb = <<>>

WrOff == wtr = [text |-> <<>>, segments |-> <<>>] /\ wout = NoOutput

-----------------------------------------------------------------------------
(* Formatter harness: write_outputs formats a segment's start and end *)

InitFmt == /\ DriverOff /\ WrOff
           /\ ta \in Times /\ tb \in Times
           /\ fa = <<>> /\ fb = <<>>

FormatPair == /\ fa = <<>>
              /\ fa' = format_srt_time(ta)
              /\ fb' = format_srt_time(tb)
              /\ UNCHANGED <<ta, tb, driverVars, wrVars>>

NextFmt == FormatPair

SpecFmt == InitFmt /\ [][NextFmt]_vars

-----------------------------------------------------------------------------
(* Writer harness: write_outputs applied to a Transcript *)

InitSrt == /\ DriverOff /\ FmtOff
           /\ wtr \in Transcripts
           /\ wout = NoOutput

ApplyWrite == /\ wout = NoOutput
              /\ wout' = write_outputs(HarnessBase, wtr)
              /\ UNCHANGED <<wtr, driverVars, fmtVars>>

NextSrt == ApplyWrite

SpecSrt == InitSrt /\ [][NextSrt]_vars

-----------------------------------------------------------------------------
(* The batch driver: environment and external outcomes *)

\* lines of the URL file, as iterating the file yields them
UrlLines == { <<"\n">>,
              <<" ", "#", "u", "\n">>,
              <<"u", "\n">>,
              <<" ", "v", " ", "\n">> }

UrlFiles == [exists : {FALSE}, lines : {<<>>}]
            \cup [exists : {TRUE}, lines : UNION {[1..n -> UrlLines] : n \in 0..MaxLines}]

Envs == [ffmpeg : BOOLEAN, ytdlp : BOOLEAN, whisper : BOOLEAN, faster : BOOLEAN,
         backend : {"whisper", "faster_whisper"}, urlFile : UrlFiles, outDirOK : BOOLEAN]

\* a video metadata mapping; <<>> stands for a key that is absent, None or empty
\* (meta.get(k) or default treats the three alike)
EmptyMeta == [uploader |-> <<>>, id |-> <<>>]

Mp4_a_1   == <<"a", "_", "1", ".", "m", "p", "4">>
Mp4_ab_1  == <<"a", ".", "b", "_", "1", ".", "m", "p", "4">>
Mp4_NA_2  == <<"N", "A", "_", "2", ".", "m", "p", "4">>
DotInfoJson == <<".", "i", "n", "f", "o", ".", "j", "s", "o", "n">>
AudioWav  == <<"a", "u", "d", "i", "o", ".", "w", "a", "v">>
Instagram == <<"i", "n", "s", "t", "a", "g", "r", "a", "m">>

\* what one yt-dlp invocation can leave behind: its exit status, the files it wrote
\* into the workspace, whether the info JSON parses, and the mapping it holds
YtDlpOutcomes ==
    { [exit |-> 1, files |-> {}, jsonOK |-> TRUE, meta |-> EmptyMeta],
      [exit |-> 0, files |-> {with_suffix(Mp4_a_1, DotInfoJson)}, jsonOK |-> TRUE,
       meta |-> [uploader |-> <<"a">>, id |-> <<"1">>]],
      [exit |-> 0, files |-> {Mp4_a_1, with_suffix(Mp4_a_1, DotInfoJson)}, jsonOK |-> FALSE,
       meta |-> EmptyMeta],
      [exit |-> 0, files |-> {Mp4_a_1}, jsonOK |-> TRUE, meta |-> EmptyMeta],
      [exit |-> 0, files |-> {Mp4_a_1, with_suffix(Mp4_a_1, DotInfoJson)}, jsonOK |-> TRUE,
       meta |-> [uploader |-> <<"a">>, id |-> <<"1">>]],
      [exit |-> 0, files |-> {Mp4_ab_1, with_suffix(Mp4_ab_1, DotInfoJson)}, jsonOK |-> TRUE,
       meta |-> [uploader |-> <<"a", ".", "b">>, id |-> <<"1">>]],
      [exit |-> 0, files |-> {Mp4_NA_2, with_suffix(Mp4_NA_2, DotInfoJson)}, jsonOK |-> TRUE,
       meta |-> [uploader |-> <<>>, id |-> <<"2">>]] }

\* exit status of ffmpeg
FfmpegOutcomes == {0, 1}

\* what the speech model returns: an error, or a raw result
RawResults ==
    { [text |-> <<>>, segments |-> <<>>],
      [text |-> <<" ", "h", "i">>,
       segments |-> << [start |-> 0, end |-> TimeOf(0, 0, 1, TicksPerSec \div 2),
                        text |-> <<" ", "h", "i">>] >>] }
ModelOutcomes == [error : {TRUE}, result : {[text |-> <<>>, segments |-> <<>>]}]
                 \cup [error : {FALSE}, result : RawResults]

-----------------------------------------------------------------------------
(* ensure_deps, read_urls, download_video, extract_audio, transcribe_* *)

\* a plausible slip: the backend library check left out
ensure_deps_nolib(e) == e.ffmpeg /\ e.ytdlp
\* TRUE when ensure_deps returns, FALSE when it calls sys.exit(1)
ensure_deps(e) ==
    /\ e.ffmpeg
    /\ e.ytdlp
    /\ IF e.backend = "faster_whisper" THEN e.faster ELSE e.whisper

\* [line.strip() for line in f if line.strip() and not line.strip().startswith("#")]
RECURSIVE read_urls(_)
read_urls(lines) ==
    IF lines = <<>> THEN <<>>
    ELSE LET l == Strip(Head(lines))
         IN (IF l # <<>> /\ Head(l) # "#" THEN <<l>> ELSE <<>>) \o read_urls(Tail(lines))

\* fnmatch of a file name against "*_*.mp4"
GlobMp4(name) ==
    /\ Len(name) >= 5
    /\ SubSeq(name, Len(name) - 3, Len(name)) = <<".", "m", "p", "4">>
    /\ \E k \in 1..(Len(name) - 4) : name[k] = "_"

\* download_video after yt-dlp left outcome o in the fresh workspace:
\* raises (ok = FALSE) or returns (mp4, meta)
download_video(o) ==
    LET mp4s == {f \in o.files : GlobMp4(f)}
        first == CHOOSE f \in mp4s : TRUE
    IN IF o.exit # 0
         THEN [ok |-> FALSE, err |-> "CalledProcessError", mp4 |-> <<>>, meta |-> EmptyMeta]
       ELSE IF mp4s = {}
         THEN [ok |-> FALSE, err |-> "RuntimeError", mp4 |-> <<>>, meta |-> EmptyMeta]
       ELSE IF with_suffix(first, DotInfoJson) \in o.files /\ ~o.jsonOK
         THEN [ok |-> FALSE, err |-> "JSONDecodeError", mp4 |-> <<>>, meta |-> EmptyMeta]
       ELSE [ok |-> TRUE, err |-> "", mp4 |-> first,
             meta |-> IF with_suffix(first, DotInfoJson) \in o.files THEN o.meta
                      ELSE EmptyMeta]

\* a plausible slip: subprocess.run without check=True, the exit status ignored
extract_audio_nocheck(status) == TRUE
\* TRUE when extract_audio returns, FALSE when subprocess.run(check=True) raises
extract_audio(status) == status = 0

StripSegs(segs) == [k \in 1..Len(segs) |-> [segs[k] EXCEPT !.text = Strip(@)]]

transcribe_whisper(r) ==
    [text |-> Strip(r.text), segments |-> StripSegs(r.segments)]

transcribe_faster_whisper(r) ==
    [text |-> Strip(Join([k \in 1..Len(r.segments) |-> Strip(r.segments[k].text)], <<" ">>)),
     segments |-> StripSegs(r.segments)]

\* the backend branch of main(): the function imports its library, runs the model
\* and normalises the result; raises (ok = FALSE) on ImportError or a model error
transcribe(e, o) ==
    LET faster == e.backend = "faster_whisper"
    IN IF (faster /\ ~e.faster) \/ (~faster /\ ~e.whisper)
         THEN [ok |-> FALSE, err |-> "ImportError", transcript |-> o.result]
       ELSE IF o.error
         THEN [ok |-> FALSE, err |-> "Exception", transcript |-> o.result]
       ELSE [ok |-> TRUE, err |-> "",
             transcript |-> IF faster THEN transcribe_faster_whisper(o.result)
                            ELSE transcribe_whisper(o.result)]

\* x or default
Or(x, default) == IF x = <<>> THEN default ELSE x

\* f"{uploader}_{uid}" with uid = meta.get("id") or mp4.stem,
\* uploader = meta.get("uploader") or "instagram"
OutputBase(m, video) == Or(m.uploader, Instagram) \o <<"_">> \o Or(m.id, Stem(video))

-----------------------------------------------------------------------------
(* The batch driver: main() *)

NoTrace == [states |-> <<>>, dl |-> <<>>, ex |-> <<>>, tr |-> <<>>]

InStage == pc \in {"download", "extract", "transcribe", "write"}

Without(f, k) == [x \in DOMAIN f \ {k} |-> f[x]]

\* trace tr with the current item entering a state
Enter(tr, state) == [tr EXCEPT ![i].states = Append(@, state)]

Init ==
    /\ FmtOff /\ WrOff
    /\ env \in Envs
    /\ pc = "ensure_deps"
    /\ exitCode = -1
    /\ urls = <<>>
    /\ i = 1
    /\ tmpdirs = <<>>
    /\ mp4 = <<>>
    /\ meta = EmptyMeta
    /\ transcript = [text |-> <<>>, segments |-> <<>>]
    /\ files = <<>>
    /\ log = <<>>
    /\ dl = <<>>
    /\ trace = <<>>

\* ensure_deps(): sys.exit(1) when a dependency is missing
EnsureDeps ==
    /\ pc = "ensure_deps"
    /\ IF ensure_deps(env)
         THEN pc' = "read_urls" /\ UNCHANGED exitCode
         ELSE pc' = "exited" /\ exitCode' = 1
    /\ UNCHANGED <<env, urls, i, tmpdirs, mp4, meta, transcript, files, log, dl, trace,
                   fmtVars, wrVars>>

\* urls = read_urls(args.urls); out_dir.mkdir(parents=True, exist_ok=True)
\* an exception of either is not caught: the interpreter exits with status 1
ReadUrls ==
    /\ pc = "read_urls"
    /\ IF ~env.urlFile.exists
         THEN pc' = "exited" /\ exitCode' = 1 /\ UNCHANGED urls
       ELSE /\ urls' = read_urls(env.urlFile.lines)
            /\ IF env.outDirOK
                 THEN pc' = "loop" /\ UNCHANGED exitCode
                 ELSE pc' = "exited" /\ exitCode' = 1
    /\ UNCHANGED <<env, i, tmpdirs, mp4, meta, transcript, files, log, dl, trace,
                   fmtVars, wrVars>>

\* for url in urls: try: with tempfile.TemporaryDirectory() as tmpd: ...
BeginItem ==
    /\ pc = "loop"
    /\ i <= Len(urls)
    /\ tmpdirs' = (i :> {}) @@ tmpdirs
    /\ trace' = Append(trace, [NoTrace EXCEPT !.states = <<"Downloading">>])
    /\ pc' = "download"
    /\ UNCHANGED <<env, exitCode, urls, i, mp4, meta, transcript, files, log, dl,
                   fmtVars, wrVars>>

\* a plausible slip: the handler lets the exception end the run
HandleFailure_abort(msg, tr) ==
    /\ tmpdirs' = Without(tmpdirs, i)
    /\ log' = Append(log, [kind |-> "error", url |-> urls[i], msg |-> msg,
                           txt |-> <<>>, srt |-> <<>>])
    /\ trace' = Enter(tr, "Failed")
    /\ pc' = "exited"
    /\ exitCode' = 1
    /\ UNCHANGED i
\* a plausible slip: the workspace made with mkdtemp and removed on success only
HandleFailure_keep(msg, tr) ==
    /\ tmpdirs' = tmpdirs
    /\ log' = Append(log, [kind |-> "error", url |-> urls[i], msg |-> msg,
                           txt |-> <<>>, srt |-> <<>>])
    /\ trace' = Enter(tr, "Failed")
    /\ i' = i + 1
    /\ pc' = "loop"
    /\ UNCHANGED exitCode
\* an exception inside the with block: the workspace is removed on the way out,
\* except Exception prints "[error] <url> -> <e>", the loop goes on
HandleFailure(msg, tr) ==
    /\ tmpdirs' = Without(tmpdirs, i)
    /\ log' = Append(log, [kind |-> "error", url |-> urls[i], msg |-> msg,
                           txt |-> <<>>, srt |-> <<>>])
    /\ trace' = Enter(tr, "Failed")
    /\ i' = i + 1
    /\ pc' = "loop"
    /\ UNCHANGED exitCode

\* mp4, meta = download_video(url, tmpdir)
DownloadVideo ==
    /\ pc = "download"
    /\ \E o \in YtDlpOutcomes :
         LET r  == download_video(o)
             tr == [trace EXCEPT ![i].dl = <<o>>]
         IN /\ dl' = Append(dl, urls[i])
            /\ IF r.ok
                 THEN /\ mp4' = r.mp4
                      /\ meta' = r.meta
                      /\ tmpdirs' = [tmpdirs EXCEPT ![i] = @ \cup o.files]
                      /\ trace' = Enter(tr, "ExtractingAudio")
                      /\ pc' = "extract"
                      /\ UNCHANGED <<i, log, exitCode>>
                 ELSE /\ HandleFailure(r.err, tr)
                      /\ UNCHANGED <<mp4, meta>>
    /\ UNCHANGED <<env, urls, transcript, files,
                   fmtVars, wrVars>>

\* audio = tmpdir / "audio.wav"; extract_audio(mp4, audio)
ExtractAudio ==
    /\ pc = "extract"
    /\ \E status \in FfmpegOutcomes :
         LET tr == [trace EXCEPT ![i].ex = <<status>>]
         IN IF extract_audio(status)
              THEN /\ tmpdirs' = [tmpdirs EXCEPT ![i] = @ \cup {AudioWav}]
                   /\ trace' = Enter(tr, "Transcribing")
                   /\ pc' = "transcribe"
                   /\ UNCHANGED <<i, log, exitCode>>
              ELSE HandleFailure("CalledProcessError", tr)
    /\ UNCHANGED <<env, urls, mp4, meta, transcript, files, dl,
                   fmtVars, wrVars>>

\* transcript = transcribe_faster_whisper(audio) or transcribe_whisper(audio)
Transcribe ==
    /\ pc = "transcribe"
    /\ \E o \in ModelOutcomes :
         LET r  == transcribe(env, o)
             tr == [trace EXCEPT ![i].tr = <<o>>]
         IN IF r.ok
              THEN /\ transcript' = r.transcript
                   /\ trace' = Enter(tr, "WritingOutput")
                   /\ pc' = "write"
                   /\ UNCHANGED <<i, log, exitCode, tmpdirs>>
              ELSE /\ HandleFailure(r.err, tr)
                   /\ UNCHANGED transcript
    /\ UNCHANGED <<env, urls, mp4, meta, files, dl,
                   fmtVars, wrVars>>

\* the output directory after write_text of both files by item k
Written(dir, w, k) ==
    (w.srt_path :> [content |-> w.srt, writer |-> k])
        @@ (w.txt_path :> [content |-> w.txt, writer |-> k])
        @@ dir

\* a plausible slip: the output directory emptied before an item's files are written
WriteItem_fresh ==
    /\ pc = "write"
    /\ LET w == write_outputs(OutputBase(meta, mp4), transcript)
       IN /\ files' = Written(<<>>, w, i)
          /\ log' = Append(log, [kind |-> "done", url |-> urls[i], msg |-> "",
                                 txt |-> w.txt_path, srt |-> w.srt_path])
    /\ tmpdirs' = Without(tmpdirs, i)
    /\ trace' = Enter(trace, "Done")
    /\ i' = i + 1
    /\ pc' = "loop"
    /\ UNCHANGED <<env, exitCode, urls, mp4, meta, transcript, dl,
                   fmtVars, wrVars>>
\* base_out = out_dir / f"{uploader}_{uid}"; write_outputs(base_out, transcript);
\* print "[done] ..."; leaving the with block removes the workspace
WriteItem ==
    /\ pc = "write"
    /\ LET w == write_outputs(OutputBase(meta, mp4), transcript)
       IN /\ files' = Written(files, w, i)
          /\ log' = Append(log, [kind |-> "done", url |-> urls[i], msg |-> "",
                                 txt |-> w.txt_path, srt |-> w.srt_path])
    /\ tmpdirs' = Without(tmpdirs, i)
    /\ trace' = Enter(trace, "Done")
    /\ i' = i + 1
    /\ pc' = "loop"
    /\ UNCHANGED <<env, exitCode, urls, mp4, meta, transcript, dl,
                   fmtVars, wrVars>>

\* a plausible slip: the exit status reports whether an item failed
ExitOk_failures ==
    /\ pc = "loop"
    /\ i > Len(urls)
    /\ pc' = "exited"
    /\ exitCode' = IF \E k \in 1..Len(log) : log[k].kind = "error" THEN 1 ELSE 0
    /\ UNCHANGED <<env, urls, i, tmpdirs, mp4, meta, transcript, files, log, dl, trace,
                   fmtVars, wrVars>>
\* the loop is over: main() returns and the interpreter exits with status 0
ExitOk ==
    /\ pc = "loop"
    /\ i > Len(urls)
    /\ pc' = "exited"
    /\ exitCode' = 0
    /\ UNCHANGED <<env, urls, i, tmpdirs, mp4, meta, transcript, files, log, dl, trace,
                   fmtVars, wrVars>>

Next ==
    \/ EnsureDeps
    \/ ReadUrls
    \/ BeginItem
    \/ DownloadVideo
    \/ ExtractAudio
    \/ Transcribe
    \/ WriteItem
    \/ ExitOk

Spec == Init /\ [][Next]_vars

-----------------------------------------------------------------------------
(* Properties *)

\* ord(c) for the characters a timestamp is made of
Ord(c) == CASE c = "," -> 44
            [] c = "0" -> 48 [] c = "1" -> 49 [] c = "2" -> 50 [] c = "3" -> 51
            [] c = "4" -> 52 [] c = "5" -> 53 [] c = "6" -> 54 [] c = "7" -> 55
            [] c = "8" -> 56 [] c = "9" -> 57
            [] c = ":" -> 58

\* Python's x <= y on str: code point order, a proper prefix sorts first
RECURSIVE LexLeq(_, _)
LexLeq(x, y) == IF x = <<>> THEN TRUE
                ELSE IF y = <<>> THEN FALSE
                ELSE IF Head(x) = Head(y) THEN LexLeq(Tail(x), Tail(y))
                ELSE Ord(Head(x)) < Ord(Head(y))

\* s.split(c) for a one-character separator
RECURSIVE SplitOn(_, _)
SplitOn(s, c) ==
    IF \A k \in 1..Len(s) : s[k] # c THEN <<s>>
    ELSE LET p == CHOOSE k \in 1..Len(s) : s[k] = c /\ \A j \in 1..(k - 1) : s[j] # c
         IN <<SubSeq(s, 1, p - 1)>> \o SplitOn(SubSeq(s, p + 1, Len(s)), c)

\* decimal value of a sequence of digit characters
RECURSIVE DigitsVal(_)
DigitsVal(s) == IF s = <<>> THEN 0
                ELSE 10 * DigitsVal(SubSeq(s, 1, Len(s) - 1)) + (Ord(s[Len(s)]) - 48)

\* the dependencies the run needs: ffmpeg, yt-dlp and the selected backend's library
DepsPresent ==
    /\ env.ffmpeg
    /\ env.ytdlp
    /\ (env.backend = "faster_whisper" => env.faster)
    /\ (env.backend # "faster_whisper" => env.whisper)

\* the loop over the URL list can start
RunStarts == DepsPresent /\ env.urlFile.exists /\ env.outDirOK

\* yt-dlp succeeded and left an MP4, and the info JSON, if written, parses
DownloadOK(o) ==
    /\ o.exit = 0
    /\ \E f \in o.files : GlobMp4(f)
    /\ (o.jsonOK \/ \A f \in o.files : Suffix(f) # <<".", "j", "s", "o", "n">>)

\* download, metadata parsing, audio extraction and transcription of an item all succeeded
AllStagesOK(t) ==
    /\ t.dl # <<>> /\ DownloadOK(t.dl[1])
    /\ t.ex = <<0>>
    /\ t.tr # <<>> /\ ~t.tr[1].error

\* C1: every URL of the list is attempted exactly once and in list order; an item's
\* failure is logged with its URL and the loop goes on to the end of the list; every
\* finished item whose four stages succeeded has its .txt and .srt in the output
\* directory, every other finished item has an error line.
C1_EveryUrlAttempted ==
    pc # "off" =>
        /\ Len(dl) <= Len(urls)
        /\ \A k \in 1..Len(dl) : dl[k] = urls[k]
        /\ Len(log) <= Len(dl)
        /\ Len(trace) = Len(dl) + (IF pc = "download" THEN 1 ELSE 0)
        /\ \A k \in 1..Len(log) :
             /\ log[k].url = urls[k]
             /\ IF AllStagesOK(trace[k])
                  THEN /\ log[k].kind = "done"
                       /\ log[k].txt \in DOMAIN files
                       /\ log[k].srt \in DOMAIN files
                       /\ Suffix(log[k].txt) = DotTxt
                       /\ Suffix(log[k].srt) = DotSrt
                  ELSE log[k].kind = "error"
        /\ (pc = "exited" /\ RunStarts => dl = urls /\ Len(log) = Len(urls))

C1_Witness ==
    /\ pc = "exited"
    /\ Len(urls) = 2
    /\ Len(log) = 2
    /\ log[1].kind = "error" /\ log[1].url = urls[1]
    /\ log[2].kind = "done" /\ log[2].txt \in DOMAIN files

\* C2: with a required dependency missing the run ends with exit status 1 before any
\* item is processed: nothing is downloaded, no workspace is created, no output is
\* written.
C2_MissingDepAborts ==
    (pc # "off" /\ ~DepsPresent) =>
        /\ pc \in {"ensure_deps", "exited"}
        /\ (pc = "exited" => exitCode = 1)
        /\ dl = <<>>
        /\ trace = <<>>
        /\ DOMAIN tmpdirs = {}
        /\ DOMAIN files = {}
        /\ log = <<>>

C2_Witness ==
    /\ pc = "exited" /\ exitCode = 1
    /\ env.ffmpeg /\ env.ytdlp /\ env.backend = "faster_whisper" /\ ~env.faster /\ env.whisper
    /\ env.urlFile.exists /\ Len(env.urlFile.lines) = 2 /\ env.outDirOK

Happy == <<"Downloading", "ExtractingAudio", "Transcribing", "WritingOutput", "Done">>

IsPrefix(x, y) == Len(x) <= Len(y) /\ x = SubSeq(y, 1, Len(x))

Terminal(t) == t.states # <<>> /\ t.states[Len(t.states)] \in {"Done", "Failed"}

\* the states an item went through are a path of the state machine, and each stage
\* was entered on the success of the one before
LegalPath(t) ==
    LET st == t.states
        n  == Len(st)
        hp == IF n > 0 /\ st[n] = "Failed" THEN SubSeq(st, 1, n - 1) ELSE st
    IN /\ n >= 1
       /\ IsPrefix(hp, Happy)
       /\ Len(hp) >= 1
       /\ (st[n] = "Failed" => Len(hp) <= 4)
       /\ (Len(hp) >= 2 => t.dl # <<>> /\ DownloadOK(t.dl[1]))
       /\ (Len(hp) >= 3 => t.ex = <<0>>)
       /\ (Len(hp) >= 4 => t.tr # <<>> /\ ~t.tr[1].error)

C3_Step ==
    /\ Len(trace') >= Len(trace)
    /\ \A k \in 1..Len(trace') : LegalPath(trace'[k])
    /\ \A k \in 1..Len(trace) : Terminal(trace[k]) => trace'[k] = trace[k]
    /\ Cardinality({k \in 1..Len(trace') : k > Len(trace) \/ trace'[k] # trace[k]}) <= 1
    /\ \A k \in 1..(Len(trace') - 1) : Terminal(trace'[k])
    /\ (files' # files =>
            /\ trace[i].states = SubSeq(Happy, 1, 4)
            /\ trace'[i].states = Happy
            /\ AllStagesOK(trace[i]))

\* C3: each item goes Pending -> Downloading -> ExtractingAudio -> Transcribing ->
\* WritingOutput -> Done, entering a stage only after the previous stage of the same
\* item succeeded, skipping and repeating none; outputs are written only by an item in
\* WritingOutput whose download, extraction and transcription succeeded; a Failed (or
\* Done) item never changes again, and a step changes the state of one item only.
C3_StateMachine == [][C3_Step]_vars

C3_Witness ==
    /\ Len(trace) = 2
    /\ trace[1].states = <<"Downloading", "ExtractingAudio", "Transcribing", "Failed">>
    /\ trace[2].states = Happy

\* C4: at most one temporary workspace exists at any time; while an item is in one of
\* its stages the only workspace is its own; between items and when the run has ended
\* (whether the item ended Done or Failed) none exists.
C4_WorkspaceExclusive ==
    pc # "off" =>
        /\ Cardinality(DOMAIN tmpdirs) <= 1
        /\ (InStage => DOMAIN tmpdirs = {i})
        /\ (~InStage => DOMAIN tmpdirs = {})

C4_Witness ==
    /\ pc = "transcribe"
    /\ i = 2
    /\ log # <<>> /\ log[1].kind = "error"
    /\ DOMAIN tmpdirs = {2}
    /\ AudioWav \in tmpdirs[2]

\* C5 as stated: with the dependencies present the process exits 0 after attempting
\* all items, and exit status 1 occurs only when a dependency is missing.
C5_Original ==
    pc = "exited" =>
        /\ (DepsPresent => exitCode = 0 /\ Len(log) = Len(urls))
        /\ (exitCode = 1 => ~DepsPresent)

\* C5 amended: the process exits 1 exactly when a dependency is missing, the URL file
\* cannot be read or the output directory cannot be created; otherwise it exits 0, and
\* only after every item was attempted, whatever the number of failed items.
C5_ExitStatus ==
    pc = "exited" =>
        /\ exitCode \in {0, 1}
        /\ (exitCode = 1 <=> ~RunStarts)
        /\ (exitCode = 0 => Len(log) = Len(urls) /\ dl = urls)

C5_Witness ==
    /\ pc = "exited" /\ exitCode = 0
    /\ Len(log) = 2
    /\ log[1].kind = "error" /\ log[2].kind = "error"

\* C6 as stated: once written, an output file is never overwritten or changed by a
\* later step of the run.
C6_Original ==
    [][\A p \in DOMAIN files : p \in DOMAIN files' /\ files'[p] = files[p]]_vars

\* C6 amended: a written output file is never removed, and the only step that changes
\* it is a later item's write_outputs to the same path (the path of that item's [done]
\* line), which overwrites it.
C6_OnlyOverwritten ==
    [][\A p \in DOMAIN files :
          /\ p \in DOMAIN files'
          /\ (files'[p] # files[p] =>
                 /\ pc = "write"
                 /\ Len(log') = Len(log) + 1
                 /\ log'[Len(log')].kind = "done"
                 /\ p \in {log'[Len(log')].txt, log'[Len(log')].srt}
                 /\ files'[p].writer = i
                 /\ files[p].writer < i)]_vars

C6_Witness ==
    /\ Len(log) = 2
    /\ log[1].kind = "done" /\ log[2].kind = "done"
    /\ log[1].url = log[2].url
    /\ log[1].txt = log[2].txt
    /\ files[log[1].txt].writer = 2

\* C7: the outputs of an item are named <uploader>_<id> from the metadata; with the
\* metadata absent the base name is the stem of the downloaded MP4; with only the
\* uploader missing the placeholder stands for it.
C7_OutputNaming ==
    (pc = "loop" /\ log # <<>> /\ log[Len(log)].kind = "done") =>
        LET done == log[Len(log)]
            Named(base) == done.txt = base \o DotTxt /\ done.srt = base \o DotSrt
        IN /\ (meta.uploader # <<>> /\ meta.id # <<>> =>
                  Named(meta.uploader \o <<"_">> \o meta.id))
           /\ (meta = EmptyMeta => Named(Stem(mp4)))
           /\ (meta.uploader = <<>> /\ meta.id # <<>> =>
                  Named(Instagram \o <<"_">> \o meta.id))

\* the lines of a file's content
LinesOf(content) == SplitOn(content, "\n")

C9_Original ==
    (fa # <<>> /\ ta <= tb) => LexLeq(fa, fb)

HundredHours == TimeOf(100, 0, 0, 0)

\* C9 amended: for all times a <= b below 100 hours, format_srt_time(a) sorts
\* lexicographically <= format_srt_time(b).
C9_MonotonicBelow100h ==
    (fa # <<>> /\ ta <= tb /\ tb < HundredHours) => LexLeq(fa, fb)

C9_Witness ==
    /\ fa # <<>>
    /\ ta = TimeOf(9, 59, 59, TicksPerSec - 1)
    /\ tb = TimeOf(10, 0, 0, 0)
    /\ LexLeq(fa, fb) /\ ~LexLeq(fb, fa)

IsDigits(s) == \A k \in 1..Len(s) : s[k] \in {Digit[d] : d \in 1..10}

\* C10: format_srt_time(t) reads HH:MM:SS,mmm where HH, MM, SS are the hours, minutes
\* (0..59) and seconds (0..59) of floor(t), in at least two digits (exactly two for
\* MM and SS), and mmm is the fraction of t truncated to whole milliseconds (0..999),
\* in three digits; 0.0 gives 00:00:00,000 and 3661.5 gives 01:01:01,500.
C10_Format ==
    fa # <<>> =>
        LET p  == SplitOn(fa, ":")
            q  == SplitOn(p[3], ",")
            hh == DigitsVal(p[1])
            mm == DigitsVal(p[2])
            ss == DigitsVal(q[1])
            ms == DigitsVal(q[2])
            whole == (hh * 60 + mm) * 60 + ss
        IN /\ Len(p) = 3 /\ Len(q) = 2
           /\ IsDigits(p[1]) /\ IsDigits(p[2]) /\ IsDigits(q[1]) /\ IsDigits(q[2])
           /\ Len(p[1]) >= 2 /\ (Len(p[1]) > 2 => p[1][1] # "0")
           /\ Len(p[2]) = 2 /\ Len(q[1]) = 2 /\ Len(q[2]) = 3
           /\ mm \in 0..59 /\ ss \in 0..59 /\ ms \in 0..999
           /\ whole * TicksPerSec <= ta /\ ta < (whole + 1) * TicksPerSec
           /\ ms * TicksPerSec <= (ta - whole * TicksPerSec) * 1000
           /\ (ta - whole * TicksPerSec) * 1000 < (ms + 1) * TicksPerSec
           /\ (ta = 0 => fa = <<"0", "0", ":", "0", "0", ":", "0", "0", ",", "0", "0", "0">>)
           /\ (ta = TimeOf(1, 1, 1, TicksPerSec \div 2) =>
                   fa = <<"0", "1", ":", "0", "1", ":", "0", "1", ",", "5", "0", "0">>)

C10_Witness ==
    /\ ta = TimeOf(1, 1, 1, TicksPerSec \div 2)
    /\ fa = <<"0", "1", ":", "0", "1", ":", "0", "1", ",", "5", "0", "0">>
    /\ tb = TimeOf(0, 0, 59, TicksPerSec - 1)
    /\ fb = <<"0", "0", ":", "0", "0", ":", "5", "9", ",", "9", "9", "9">>

=============================================================================
